---- MODULE Spec2Model ----
(***************************************************************************)
(* Streaming view-query handle of perl-Couchbase-Client (xs/viewrow.c).    *)
(*                                                                         *)
(* A request is a Perl array (AV) reached through two references: the      *)
(* blessed reference returned to the caller and the copy (cbrv) handed to  *)
(* libcouchbase as the cookie.  libcouchbase calls viewrow_callback once   *)
(* per row and once with LCB_RESP_F_FINAL; the callback buffers decoded    *)
(* rows in RAWROWS and hands them to the Perl-level callback (PRIVCB)      *)
(* through invoke_row.                                                     *)
(*                                                                         *)
(* Every call of the Perl-level callback is recorded in the request's      *)
(* `calls` log together with what the request looked like at that moment,  *)
(* so the order of the steps inside one handler is visible in the state.   *)
(***************************************************************************)
EXTENDS Integers, Sequences, FiniteSets, TLC

(* Largest number of row events libcouchbase emits for one query. *)
MaxRows == 43

(* Largest number of events libcouchbase emits after the final one
   (only in the specification that lets it break its contract). *)
MaxLate == 1

(* The literal compared with av_len(rawrows) in viewrow_callback. *)
FlushTopIndex == 20

(* Requests that can be issued in one run. *)
HandleIds == {1}

VARIABLES
    reqs,          \* per request: the AV, its two references, the callback log
    engine,        \* per request: what libcouchbase has emitted for it
    selfobjRefcnt, \* reference count of parent->selfobj
    crashed        \* the process was brought down by a stale cookie

vars == <<reqs, engine, selfobjRefcnt, crashed>>

-----------------------------------------------------------------------------
(* Perl values *)

(* An array slot that was never stored (av_fill leaves NULL). *)
NullSV == [set |-> FALSE, defined |-> FALSE, pv |-> <<>>, utf8 |-> FALSE]

(* &PL_sv_undef *)
PL_sv_undef == [set |-> TRUE, defined |-> FALSE, pv |-> <<>>, utf8 |-> FALSE]

(* newSVpvn(s, n): a string scalar holding the first n bytes of s. *)
newSVpvn(s, n) ==
    [set |-> TRUE, defined |-> TRUE,
     pv |-> SubSeq(s.bytes, 1, n), utf8 |-> FALSE]

SvUTF8_on(sv) == [sv EXCEPT !.utf8 = TRUE]

(* An integer slot: unset, or newSViv(iv). *)
NullIV(z) == [set |-> FALSE, iv |-> z]
newSViv(iv) == [set |-> TRUE, iv |-> iv]

(* A C buffer pointer: NULL, or the bytes it points at. *)
NullPtr == [null |-> TRUE, bytes |-> <<>>]
Ptr(b) == [null |-> FALSE, bytes |-> b]

(* The wrapper testing the pointer only: a zero length gives an empty
   string instead of undef. *)
sv_from_rowdata_ptr_only(s, n) ==
    IF ~s.null
    THEN SvUTF8_on(newSVpvn(s, n))
    ELSE PL_sv_undef

(* Wraps the buf:length pair as an SV *)
sv_from_rowdata(s, n) ==
    IF ~s.null /\ n # 0
    THEN SvUTF8_on(newSVpvn(s, n))
    ELSE PL_sv_undef

-----------------------------------------------------------------------------
(* Reference counting *)

(* Freeing the array without freeing what its PARENT slot refers to. *)
sv_free_av_leak(r) == r

(* The AV's count reached zero: the array is freed, and with it the
   reference it held on the parent. *)
sv_free_av(r) == [r EXCEPT !.parent = FALSE]

(* SvREFCNT_dec on one of the two references to the request (field f is
   "blessedRefcnt" or "cbrvRefcnt"): when the reference's own count drops
   to zero it is freed and lets go of the AV. *)
SvREFCNT_dec(r, f) ==
    LET n == r[f] - 1
        a == IF n = 0 THEN r.avRefcnt - 1 ELSE r.avRefcnt
        s == [r EXCEPT ![f] = n, !.avRefcnt = a]
    IN  IF n = 0 /\ a = 0 THEN sv_free_av(s) ELSE s

(* A copy of the reference that forgets to count itself on the AV. *)
newSVsv_noinc(r) == [r EXCEPT !.cbrvRefcnt = 1]

(* newSVsv(blessed): a second reference to the same AV. *)
newSVsv(r) == [r EXCEPT !.cbrvRefcnt = 1, !.avRefcnt = @ + 1]

(* newRV_noinc of the new AV: the reference takes over the count that
   newAV gave, the AV's count stays as it is. *)
newRV_noinc(r) == [r EXCEPT !.blessedRefcnt = 1]

-----------------------------------------------------------------------------
(* The request *)

(* A request that has not been allocated yet. *)
NoReq ==
    [phase |-> "unissued",
     rowbuf |-> <<>>, rawrows |-> <<>>, parent |-> FALSE,
     isDone |-> FALSE,
     rc |-> NullIV(""), meta |-> NullSV, htcode |-> NullIV(0),
     avRefcnt |-> 0, blessedRefcnt |-> 0, cbrvRefcnt |-> 0,
     tokenReleases |-> 0,
     rflags |-> FALSE,
     calls |-> <<>>, warns |-> 0, died |-> FALSE,
     error |-> ""]

(* req = newAV() *)
newAV(r) == [r EXCEPT !.avRefcnt = 1]

(* av_fill leaves every slot NULL; then the two buffers are stored and a
   counted reference to parent->selfobj (newRV_inc). *)
rowreq_init_common(r) ==
    [r EXCEPT !.rowbuf = <<>>,
              !.rawrows = <<>>,
              !.parent = TRUE]

(* References on parent->selfobj held by a request. *)
ParentRefs(r) == IF r.parent THEN 1 ELSE 0

(* The request no longer exists (its AV was freed). *)
Destroyed(r) == r.phase # "unissued" /\ r.avRefcnt <= 0

-----------------------------------------------------------------------------
(* What libcouchbase passes to the callback (lcb_RESPVIEWQUERY) *)

(* No document sub-response (resp->docresp == NULL). *)
NoDocResp == [null |-> TRUE, rc |-> "", value |-> NullPtr, nvalue |-> 0]

DocResp(rc, value, nvalue) ==
    [null |-> FALSE, rc |-> rc, value |-> value, nvalue |-> nvalue]

(* No transport response (resp->htresp == NULL). *)
NoHtResp == [null |-> TRUE, htstatus |-> 0]

HtResp(status) == [null |-> FALSE, htstatus |-> status]

(* The i-th row of a query.  The fields run through the shapes a view row
   can take: a NULL pointer, a pointer with length zero, a length shorter
   than the buffer, a full buffer; and no, a successful or a failed
   document sub-response. *)
RowEventOf(i) ==
    [final     |-> FALSE,
     seq       |-> i,
     key       |-> IF i % 4 = 0 THEN NullPtr
                   ELSE IF i % 4 = 1 THEN Ptr(<<>>) ELSE Ptr(<<i>>),
     nkey      |-> IF i % 4 \in {0, 1} THEN 0 ELSE 1,
     value     |-> IF i % 6 = 0 THEN NullPtr ELSE Ptr(<<i, 0>>),
     nvalue    |-> IF i % 6 = 0 THEN 0 ELSE IF i % 5 = 0 THEN 1 ELSE 2,
     geometry  |-> IF i % 3 = 0 THEN Ptr(<<7>>) ELSE NullPtr,
     ngeometry |-> IF i % 3 = 0 THEN 1 ELSE 0,
     docid     |-> IF i % 7 = 0 THEN NullPtr ELSE Ptr(<<i>>),
     ndocid    |-> IF i % 7 = 0 THEN 0 ELSE 1,
     rc        |-> "LCB_SUCCESS",
     htresp    |-> NoHtResp,
     docresp   |-> IF i % 3 = 0 THEN NoDocResp
                   ELSE IF i % 3 = 1
                        THEN DocResp("LCB_SUCCESS", Ptr(<<i, i>>), 2)
                        ELSE DocResp("LCB_KEY_ENOENT", NullPtr, 0)]

(* The i-th row of request q: every request has rows of its own, so that a
   row that ended up in another request's buffer would show. *)
RowEventFor(q, i) == RowEventOf((q - 1) * (MaxRows + 1) + i)

(* A final event: result code, trailing metadata, optional HTTP response. *)
FinalEventOf(rc, value, nvalue, htresp) ==
    [final     |-> TRUE,
     seq       |-> 0,
     key       |-> NullPtr, nkey |-> 0,
     value     |-> value, nvalue |-> nvalue,
     geometry  |-> NullPtr, ngeometry |-> 0,
     docid     |-> NullPtr, ndocid |-> 0,
     rc        |-> rc,
     htresp    |-> htresp,
     docresp   |-> NoDocResp]

(* The final events libcouchbase may deliver. *)
FinalEvents ==
    { FinalEventOf("LCB_SUCCESS", Ptr(<<9, 9>>), 2, HtResp(200)),
      FinalEventOf("LCB_SUCCESS", NullPtr, 0, NoHtResp),
      FinalEventOf("LCB_HTTP_ERROR", Ptr(<<>>), 0, HtResp(500)),
      FinalEventOf("LCB_ETIMEDOUT", Ptr(<<8>>), 1, NoHtResp) }

(* Placeholder while no final event has been delivered. *)
NoEvent == FinalEventOf("", NullPtr, 0, NoHtResp)

-----------------------------------------------------------------------------
(* Calling the Perl-level callback *)

(* What the callback is called with and what it can read from the request
   while it runs.  rowsrv tells whether a batch was pushed as second
   argument; without it the call is the completion notification. *)
Snapshot(r, rowsrv, fault) ==
    [rowsrv     |-> rowsrv,
     rows       |-> IF rowsrv THEN r.rawrows ELSE <<>>,
     buffered   |-> Len(r.rawrows),
     fault      |-> fault,
     final      |-> r.rflags,
     isDone     |-> r.isDone,
     rc         |-> r.rc,
     meta       |-> r.meta,
     htcode     |-> r.htcode,
     cbrvRefcnt |-> r.cbrvRefcnt,
     avRefcnt   |-> r.avRefcnt]

(* call_sv without G_EVAL: a die inside the callback unwinds the caller. *)
call_sv_noeval(fault) == [errsv |-> FALSE, died |-> fault]

(* call_sv(meth, G_DISCARD|G_EVAL): a die inside the callback is trapped
   and left in ERRSV; it does not unwind the C caller. *)
call_sv(fault) == [errsv |-> fault, died |-> FALSE]

(* av_clear of the batch that was handed over. *)
av_clear(r) == [r EXCEPT !.rawrows = <<>>]

(* invoke_row leaving the batch in place when the callback died. *)
invoke_row_keep_on_fault(r, rowsrv, fault) ==
    LET out    == call_sv(fault)
        called == [r EXCEPT !.calls = Append(@, Snapshot(r, rowsrv, fault))]
    IN  IF out.died
        THEN [called EXCEPT !.died = TRUE]
        ELSE IF out.errsv
             THEN [called EXCEPT !.warns = @ + 1]
             ELSE IF rowsrv THEN av_clear(called) ELSE called

(* Calls PRIVCB with the request and, if given, the batch; warns about a
   trapped error; clears the batch. *)
invoke_row(r, rowsrv, fault) ==
    LET out    == call_sv(fault)
        called == [r EXCEPT !.calls = Append(@, Snapshot(r, rowsrv, fault))]
    IN  IF out.died
        THEN [called EXCEPT !.died = TRUE]
        ELSE LET warned == IF out.errsv
                           THEN [called EXCEPT !.warns = @ + 1]
                           ELSE called
             IN  IF rowsrv THEN av_clear(warned) ELSE warned

-----------------------------------------------------------------------------
(* The dispatcher *)

(* Highest index of the array, as Perl's av_len returns it. *)
av_len(av) == Len(av) - 1

(* Adding the row at the front (av_unshift) instead of at the end. *)
av_push_front(av, sv) == <<sv>> \o av

av_push(av, sv) == Append(av, sv)

(* The row hash with the document attached whenever a sub-response is
   there, without looking at its status. *)
RowData_any_doc(resp) ==
    [key      |-> sv_from_rowdata(resp.key, resp.nkey),
     value    |-> sv_from_rowdata(resp.value, resp.nvalue),
     geometry |-> sv_from_rowdata(resp.geometry, resp.ngeometry),
     id       |-> sv_from_rowdata(resp.docid, resp.ndocid),
     doc      |-> IF ~resp.docresp.null
                  THEN newSVpvn(resp.docresp.value, resp.docresp.nvalue)
                  ELSE NullSV]

(* The hash built for one row. *)
RowData(resp) ==
    [key      |-> sv_from_rowdata(resp.key, resp.nkey),
     value    |-> sv_from_rowdata(resp.value, resp.nvalue),
     geometry |-> sv_from_rowdata(resp.geometry, resp.ngeometry),
     id       |-> sv_from_rowdata(resp.docid, resp.ndocid),
     doc      |-> IF ~resp.docresp.null /\ resp.docresp.rc = "LCB_SUCCESS"
                  THEN newSVpvn(resp.docresp.value, resp.docresp.nvalue)
                  ELSE NullSV]

(* The branch of viewrow_callback for a row. *)
viewrow_row(r, resp, f1) ==
    LET pushed == [r EXCEPT !.rawrows = av_push(@, RowData(resp))]
    IN  IF av_len(pushed.rawrows) >= FlushTopIndex
        THEN invoke_row(pushed, TRUE, f1)
        ELSE pushed

(* SvREFCNT_dec(req_rv): the cookie is given up. *)
ReleaseCookie(r) ==
    SvREFCNT_dec([r EXCEPT !.tokenReleases = @ + 1], "cbrvRefcnt")

(* Storing the HTTP status without looking whether there is a response. *)
StoreTerminal_always_ht(r, resp) ==
    [r EXCEPT !.isDone = TRUE,
              !.rc = newSViv(resp.rc),
              !.meta = sv_from_rowdata(resp.value, resp.nvalue),
              !.htcode = newSViv(resp.htresp.htstatus)]

(* The terminal fields stored between the last flush and the completion
   notification. *)
StoreTerminal(r, resp) ==
    LET s == [r EXCEPT !.isDone = TRUE,
                       !.rc = newSViv(resp.rc),
                       !.meta = sv_from_rowdata(resp.value, resp.nvalue)]
    IN  IF ~resp.htresp.null
        THEN [s EXCEPT !.htcode = newSViv(resp.htresp.htstatus)]
        ELSE s

(* The final branch giving up when the callback died in the last flush. *)
viewrow_final_abort_on_fault(r, resp, f1, f2) ==
    LET flushed == invoke_row(r, TRUE, f1)
    IN  IF flushed.died \/ f1 THEN flushed
        ELSE LET notified == invoke_row(StoreTerminal(flushed, resp), FALSE, f2)
             IN  IF notified.died THEN notified
                 ELSE ReleaseCookie(notified)

(* The final branch with the terminal fields stored before the remaining
   rows are flushed. *)
viewrow_final_store_first(r, resp, f1, f2) ==
    LET flushed == invoke_row(StoreTerminal(r, resp), TRUE, f1)
    IN  IF flushed.died THEN flushed
        ELSE LET notified == invoke_row(flushed, FALSE, f2)
             IN  IF notified.died THEN notified
                 ELSE ReleaseCookie(notified)

(* The final branch with the completion notification made before the
   remaining rows are flushed. *)
viewrow_final_notify_first(r, resp, f1, f2) ==
    LET notified == invoke_row(StoreTerminal(r, resp), FALSE, f2)
    IN  IF notified.died THEN notified
        ELSE LET flushed == invoke_row(notified, TRUE, f1)
             IN  IF flushed.died THEN flushed
                 ELSE ReleaseCookie(flushed)

(* The branch of viewrow_callback for LCB_RESP_F_FINAL.  f1 and f2 tell
   whether the Perl-level callback dies in the flush and in the
   completion notification. *)
viewrow_final(r, resp, f1, f2) ==
    LET flushed == invoke_row(r, TRUE, f1)
    IN  IF flushed.died THEN flushed
        ELSE LET notified == invoke_row(StoreTerminal(flushed, resp), FALSE, f2)
             IN  IF notified.died THEN notified
                 ELSE ReleaseCookie(notified)

(* The callback with ISDONE stored on entry, for every event. *)
viewrow_callback_done_always(r, resp, f1, f2) ==
    LET cur == [r EXCEPT !.rflags = resp.final, !.isDone = TRUE]
    IN  IF resp.final
        THEN viewrow_final(cur, resp, f1, f2)
        ELSE viewrow_row(cur, resp, f1)

viewrow_callback(r, resp, f1, f2) ==
    LET cur == [r EXCEPT !.rflags = resp.final]
    IN  IF resp.final
        THEN viewrow_final(cur, resp, f1, f2)
        ELSE viewrow_row(cur, resp, f1)

-----------------------------------------------------------------------------
(* Issuing a query *)

(* What lcb_view_query may return. *)
SubmitCodes == {"LCB_SUCCESS", "LCB_EINVAL"}

(* The rejection path without SvREFCNT_dec(cbrv). *)
PLCB__viewhandle_new_leak(r, rc) ==
    LET req     == rowreq_init_common(newAV(r))
        blessed == newRV_noinc(req)
        cbrv    == newSVsv(blessed)
    IN  IF rc # "LCB_SUCCESS"
        THEN [SvREFCNT_dec(cbrv, "blessedRefcnt")
                EXCEPT !.phase = "rejected", !.error = rc]
        ELSE [cbrv EXCEPT !.phase = "issued"]

(* PLCB__viewhandle_new with rc the value lcb_view_query returns.  On a
   rejection both references are dropped and the function dies with the
   code; otherwise the blessed reference goes to the caller and cbrv stays
   with libcouchbase as the cookie. *)
PLCB__viewhandle_new(r, rc) ==
    LET req     == rowreq_init_common(newAV(r))
        blessed == newRV_noinc(req)
        cbrv    == newSVsv(blessed)
    IN  IF rc # "LCB_SUCCESS"
        THEN [SvREFCNT_dec(SvREFCNT_dec(cbrv, "blessedRefcnt"), "cbrvRefcnt")
                EXCEPT !.phase = "rejected", !.error = rc]
        ELSE [cbrv EXCEPT !.phase = "issued"]

(* The engine's side of one request. *)
Idle == [submitted |-> FALSE, rows |-> 0, finalSent |-> FALSE,
         finalEv |-> NoEvent, late |-> 0]

InitOver(H) ==
    /\ reqs = [h \in H |-> NoReq]
    /\ engine = [h \in H |-> Idle]
    /\ selfobjRefcnt = 1
    /\ crashed = FALSE

Init == InitOver(HandleIds)

IssueQuery(h) ==
    /\ ~crashed
    /\ reqs[h].phase = "unissued"
    /\ \E rc \in SubmitCodes :
         LET new == PLCB__viewhandle_new(reqs[h], rc)
         IN  /\ reqs' = [reqs EXCEPT ![h] = new]
             /\ engine' = [engine EXCEPT ![h].submitted = (rc = "LCB_SUCCESS")]
             /\ selfobjRefcnt' = selfobjRefcnt + ParentRefs(new)
                                               - ParentRefs(reqs[h])
    /\ UNCHANGED crashed

-----------------------------------------------------------------------------
(* The event loop *)

(* A dispatch that takes the request from one fixed place, not from the
   cookie of the response. *)
Deliver_to_first(q, resp, f1, f2) ==
    LET t   == CHOOSE x \in DOMAIN reqs : \A y \in DOMAIN reqs : x <= y
        new == viewrow_callback(reqs[t], resp, f1, f2)
    IN  /\ reqs' = [reqs EXCEPT ![t] = new]
        /\ selfobjRefcnt' = selfobjRefcnt + ParentRefs(new)
                                          - ParentRefs(reqs[t])

(* libcouchbase calls viewrow_callback with the cookie of request q.
   plcb_evloop_wait_unref(plobj), called first, only tells the event loop
   that one awaited callback has run; it touches nothing of the request. *)
Deliver(q, resp, f1, f2) ==
    LET new == viewrow_callback(reqs[q], resp, f1, f2)
    IN  /\ reqs' = [reqs EXCEPT ![q] = new]
        /\ selfobjRefcnt' = selfobjRefcnt + ParentRefs(new)
                                          - ParentRefs(reqs[q])

(* The next row of q arrives, in a query of at most maxRows rows. *)
RowEventIn(q, maxRows) ==
    /\ ~crashed
    /\ engine[q].submitted
    /\ ~engine[q].finalSent
    /\ ~reqs[q].died
    /\ engine[q].rows < maxRows
    /\ \E f1 \in BOOLEAN :
         Deliver(q, RowEventFor(q, engine[q].rows + 1), f1, FALSE)
    /\ engine' = [engine EXCEPT ![q].rows = @ + 1]
    /\ UNCHANGED crashed

RowEvent(q) == RowEventIn(q, MaxRows)

(* The end of q's results arrives, as one of the final events in Events. *)
FinalEventIn(q, Events) ==
    /\ ~crashed
    /\ engine[q].submitted
    /\ ~engine[q].finalSent
    /\ ~reqs[q].died
    /\ \E ev \in Events, f1, f2 \in BOOLEAN :
         /\ Deliver(q, ev, f1, f2)
         /\ engine' = [engine EXCEPT ![q].finalSent = TRUE,
                                     ![q].finalEv = ev]
    /\ UNCHANGED crashed

FinalEvent(q) == FinalEventIn(q, FinalEvents)

(* lcb_wait(parent->instance): the loop runs and a pending event of some
   query of this instance is dispatched.  A longer wait is a sequence of
   these steps. *)
lcb_wait ==
    \E q \in DOMAIN reqs : RowEvent(q) \/ FinalEvent(q)

(* PLCB__viewhandle_fetch(pp): the caller pumps the loop through a handle
   it holds. *)
PLCB__viewhandle_fetch(h) ==
    /\ reqs[h].phase = "issued"
    /\ reqs[h].blessedRefcnt > 0
    /\ lcb_wait

(* Another blocking operation on the same instance runs the loop. *)
PumpEventLoop == lcb_wait

(* The caller drops the handle it got from PLCB__viewhandle_new. *)
ConsumerRelease(h) ==
    /\ ~crashed
    /\ reqs[h].phase = "issued"
    /\ reqs[h].blessedRefcnt > 0
    /\ LET new == SvREFCNT_dec(reqs[h], "blessedRefcnt")
       IN  /\ reqs' = [reqs EXCEPT ![h] = new]
           /\ selfobjRefcnt' = selfobjRefcnt + ParentRefs(new)
                                             - ParentRefs(reqs[h])
    /\ UNCHANGED <<engine, crashed>>

Next ==
    \/ \E h \in DOMAIN reqs : IssueQuery(h)
    \/ \E h \in DOMAIN reqs : PLCB__viewhandle_fetch(h)
    \/ PumpEventLoop
    \/ \E h \in DOMAIN reqs : ConsumerRelease(h)

Spec == Init /\ [][Next]_vars

(* The event loop keeps running until the query's final event has been
   dispatched: libcouchbase delivers exactly one final event per query. *)
SpecLive ==
    Init /\ [][Next]_vars /\ \A q \in HandleIds : WF_vars(FinalEvent(q))

-----------------------------------------------------------------------------
(* Two queries in flight on one instance *)

MultiIds == {1, 2}

(* Largest number of rows of a query when two are in flight. *)
MaxRowsMulti == 22

(* The final event delivered when two queries are in flight. *)
FinalEventsMulti ==
    { FinalEventOf("LCB_SUCCESS", Ptr(<<9, 9>>), 2, HtResp(200)) }

InitMulti == InitOver(MultiIds)

(* lcb_wait with both queries' events pending: any of them may be next. *)
lcb_wait_multi ==
    \E q \in DOMAIN reqs :
        RowEventIn(q, MaxRowsMulti) \/ FinalEventIn(q, FinalEventsMulti)

FetchMulti(h) ==
    /\ reqs[h].phase = "issued"
    /\ reqs[h].blessedRefcnt > 0
    /\ lcb_wait_multi

PumpEventLoopMulti == lcb_wait_multi

NextMulti ==
    \/ \E h \in DOMAIN reqs : IssueQuery(h)
    \/ \E h \in DOMAIN reqs : FetchMulti(h)
    \/ PumpEventLoopMulti
    \/ \E h \in DOMAIN reqs : ConsumerRelease(h)

SpecMulti == InitMulti /\ [][NextMulti]_vars

-----------------------------------------------------------------------------
(* A libcouchbase that breaks its contract *)

(* A second final event for q.  Its cookie was freed when the first one
   was handled, so the callback reads freed memory: the process may go
   down, or the memory may still hold the old reference and the callback
   runs as before. *)
LateFinalEvent(q) ==
    /\ ~crashed
    /\ engine[q].finalSent
    /\ engine[q].late < MaxLate
    /\ engine' = [engine EXCEPT ![q].late = @ + 1]
    /\ \/ /\ crashed' = TRUE
          /\ UNCHANGED <<reqs, selfobjRefcnt>>
       \/ /\ \E ev \in FinalEvents, f1, f2 \in BOOLEAN :
               Deliver(q, ev, f1, f2)
          /\ UNCHANGED crashed

NextViolation ==
    \/ Next
    \/ \E q \in DOMAIN reqs : LateFinalEvent(q)

SpecViolation == Init /\ [][NextViolation]_vars

-----------------------------------------------------------------------------
(* Reading the callback log *)

IsBatch(c) == c.rowsrv

IsNone(c) == ~c.rowsrv

IsNonEmptyBatch(c) == c.rowsrv /\ Len(c.rows) > 0

Batches(r) == SelectSeq(r.calls, IsBatch)

Nones(r) == SelectSeq(r.calls, IsNone)

NonEmptyBatches(r) == SelectSeq(r.calls, IsNonEmptyBatch)

BatchSizes(r) == [k \in 1..Len(Batches(r)) |-> Len(Batches(r)[k].rows)]

RECURSIVE Concat(_)
Concat(cs) == IF cs = <<>> THEN <<>> ELSE Head(cs).rows \o Concat(Tail(cs))

(* The rows libcouchbase has emitted for h, as the callback decodes them. *)
Emitted(h) == [i \in 1..engine[h].rows |-> RowData(RowEventFor(h, i))]

CeilDiv(n, d) == (n + d - 1) \div d

LastCall(r) == r.calls[Len(r.calls)]

-----------------------------------------------------------------------------
(* Claims *)

(* C1: once N row events and the final event have been handled, the
   callback has received exactly ceil(N / 20) non-empty batches, then
   exactly one completion notification, and the batch sizes add up to N. *)
C1_BatchCount ==
    \A h \in DOMAIN reqs :
        engine[h].finalSent =>
            /\ Len(NonEmptyBatches(reqs[h]))
                 = CeilDiv(engine[h].rows, FlushTopIndex)
            /\ Len(Nones(reqs[h])) = 1
            /\ IsNone(LastCall(reqs[h]))
            /\ Len(Concat(reqs[h].calls)) = engine[h].rows

(* C2: a flush triggered by a row event delivers exactly 20 rows, no batch
   holds more than 20 rows, and 25 rows followed by the final event give
   batches of 20 and 5 rows and then the completion notification. *)
C2_FlushAtTwenty ==
    \A h \in DOMAIN reqs :
        /\ \A k \in DOMAIN reqs[h].calls :
             LET c == reqs[h].calls[k]
             IN  c.rowsrv =>
                    /\ Len(c.rows) <= FlushTopIndex
                    /\ ~c.final => Len(c.rows) = FlushTopIndex
        /\ (engine[h].finalSent /\ engine[h].rows = 25) =>
              /\ BatchSizes(reqs[h]) = <<20, 5>>
              /\ IsNone(LastCall(reqs[h]))

(* C3: every call of the callback that carries a batch carries at least
   one row; with nothing buffered at the final event only the completion
   notification is made. *)
C3_NoEmptyBatch ==
    \A h \in DOMAIN reqs :
        \A k \in DOMAIN reqs[h].calls :
            reqs[h].calls[k].rowsrv => Len(reqs[h].calls[k].rows) >= 1

(* C4: the batches delivered so far, concatenated in delivery order and
   followed by what is still buffered, are exactly the rows emitted so far
   in the order of emission: nothing reordered, dropped or duplicated. *)
C4_ArrivalOrder ==
    \A h \in DOMAIN reqs :
        Concat(reqs[h].calls) \o reqs[h].rawrows = Emitted(h)

(* C4 witness: a finished query whose rows went out in several batches. *)
C4_Witness ==
    \E h \in DOMAIN reqs :
        /\ engine[h].finalSent
        /\ Len(NonEmptyBatches(reqs[h])) >= 3
        /\ reqs[h].rawrows = <<>>
        /\ Len(Concat(reqs[h].calls)) = engine[h].rows

(* C5: the completion notification is made at most once, exactly once when
   the final event has been handled, only then, and no call follows it. *)
C5_NoneOnceAndLast ==
    \A h \in DOMAIN reqs :
        /\ Len(Nones(reqs[h])) = (IF engine[h].finalSent THEN 1 ELSE 0)
        /\ \A k \in DOMAIN reqs[h].calls :
              IsNone(reqs[h].calls[k]) => k = Len(reqs[h].calls)

(* C5 witness: a query completed after batches were delivered, and the
   caller has dropped the handle since. *)
C5_Witness ==
    \E h \in DOMAIN reqs :
        /\ engine[h].finalSent
        /\ Len(reqs[h].calls) >= 3
        /\ IsNone(LastCall(reqs[h]))
        /\ Destroyed(reqs[h])

(* C6: the final event is handled as last flush, terminal fields, completion
   notification, release of the cookie: the flush sees isDone false; the
   notification sees isDone true, the event's result code, the event's
   metadata, an HTTP status exactly if the event had an HTTP response, and
   the cookie still held; afterwards the cookie is released. *)
C6_FinalOrder ==
    \A h \in DOMAIN reqs :
        \A k \in DOMAIN reqs[h].calls :
            LET c  == reqs[h].calls[k]
                ev == engine[h].finalEv
            IN  IsNone(c) =>
                  /\ k > 1
                  /\ reqs[h].calls[k - 1].rowsrv
                  /\ reqs[h].calls[k - 1].final
                  /\ ~reqs[h].calls[k - 1].isDone
                  /\ c.isDone
                  /\ c.rc.set /\ c.rc.iv = ev.rc
                  /\ c.meta.set
                  /\ IF ev.value.null \/ ev.nvalue = 0
                     THEN ~c.meta.defined
                     ELSE /\ c.meta.defined
                          /\ c.meta.pv = SubSeq(ev.value.bytes, 1, ev.nvalue)
                  /\ c.htcode.set <=> ~ev.htresp.null
                  /\ c.htcode.set => c.htcode.iv = ev.htresp.htstatus
                  /\ c.cbrvRefcnt = 1
                  /\ reqs[h].cbrvRefcnt = 0

(* C6 witness: a completion notification for an error result without an
   HTTP response, after a last flush that carried rows. *)
C6_Witness ==
    \E h \in DOMAIN reqs :
        /\ engine[h].finalSent
        /\ engine[h].finalEv.rc # "LCB_SUCCESS"
        /\ engine[h].finalEv.htresp.null
        /\ Len(reqs[h].calls) >= 2
        /\ IsNone(LastCall(reqs[h]))
        /\ Len(reqs[h].calls[Len(reqs[h].calls) - 1].rows) > 0

(* C7: a die in the callback never unwinds viewrow_callback and is
   warned about; the batch it was given is still cleared and not delivered
   again, later rows are still buffered and flushed, and the final event
   still stores the terminal fields, makes the completion notification and
   releases the cookie. *)
C7_FaultsSwallowed ==
    \A h \in DOMAIN reqs :
        LET r      == reqs[h]
            faulty == SelectSeq(r.calls, LAMBDA c : c.fault)
        IN  /\ ~r.died
            /\ r.warns = Len(faulty)
            /\ Len(Concat(r.calls)) + Len(r.rawrows) = engine[h].rows
            /\ \A k \in DOMAIN r.calls :
                 (r.calls[k].fault /\ k < Len(r.calls)) =>
                    \A i \in DOMAIN r.calls[k + 1].rows :
                       \A j \in DOMAIN r.calls[k].rows :
                          r.calls[k + 1].rows[i] # r.calls[k].rows[j]
            /\ (faulty # <<>> /\ IsBatch(faulty[Len(faulty)])
                  /\ ~IsBatch(LastCall(r))) => r.rawrows = <<>>
            /\ engine[h].finalSent =>
                 /\ r.isDone /\ r.rc.set /\ r.meta.set
                 /\ r.rc.iv = engine[h].finalEv.rc
                 /\ IsNone(LastCall(r))
                 /\ r.cbrvRefcnt = 0
                 /\ r.tokenReleases = 1

(* C7 witness: a query in which a batch flush on a row event died, later
   rows were flushed, the last flush and the completion notification died
   too, and the query is complete. *)
C7_Witness ==
    \E h \in DOMAIN reqs :
        LET cs == reqs[h].calls
        IN  /\ engine[h].finalSent
            /\ Len(cs) >= 3
            /\ cs[1].fault /\ cs[1].rowsrv /\ ~cs[1].final
            /\ cs[Len(cs) - 1].fault /\ Len(cs[Len(cs) - 1].rows) > 0
            /\ cs[Len(cs)].fault /\ IsNone(cs[Len(cs)])
            /\ reqs[h].isDone
            /\ reqs[h].cbrvRefcnt = 0

(* C8: after a rejected submission PLCB__viewhandle_new has died with the
   engine's code, neither reference to the request is left, the request is
   gone, libcouchbase holds nothing for it and the callback was never
   called; and it dies in no other case. *)
C8_RejectionReleasesBoth ==
    \A h \in DOMAIN reqs :
        /\ reqs[h].phase = "rejected" =>
              /\ reqs[h].error \in SubmitCodes \ {"LCB_SUCCESS"}
              /\ reqs[h].blessedRefcnt = 0
              /\ reqs[h].cbrvRefcnt = 0
              /\ reqs[h].avRefcnt = 0
              /\ ~engine[h].submitted
              /\ engine[h].rows = 0 /\ ~engine[h].finalSent
              /\ reqs[h].calls = <<>>
        /\ reqs[h].error # "" => reqs[h].phase = "rejected"

(* C8 witness: a submission was rejected. *)
C8_Witness ==
    \E h \in DOMAIN reqs :
        reqs[h].phase = "rejected" /\ reqs[h].error = "LCB_EINVAL"

(* C9: a second final event for a completed request does not make a second
   completion notification, does not overwrite the terminal fields and
   does not release the cookie a second time. *)
C9_SecondFinalPrevented ==
    \A h \in DOMAIN reqs :
        /\ Len(Nones(reqs[h])) <= 1
        /\ reqs[h].tokenReleases <= 1
        /\ engine[h].finalSent =>
              /\ reqs[h].rc = newSViv(engine[h].finalEv.rc)
              /\ reqs[h].meta = sv_from_rowdata(engine[h].finalEv.value,
                                                engine[h].finalEv.nvalue)

(* C10: the request has two holders, the cookie and the caller's handle.
   Its count is the number of holders left and never negative, it is
   destroyed exactly when both are gone and so never while the cookie is
   held, the cookie is released once, when the final event has been handled,
   and the callback only ever runs on a live request whose cookie is held. *)
C10_TwoHolders ==
    \A h \in DOMAIN reqs :
        LET r == reqs[h]
        IN  r.phase # "unissued" =>
              /\ r.blessedRefcnt \in {0, 1}
              /\ r.cbrvRefcnt \in {0, 1}
              /\ r.avRefcnt >= 0
              /\ r.avRefcnt = r.blessedRefcnt + r.cbrvRefcnt
              /\ Destroyed(r) <=> (r.blessedRefcnt = 0 /\ r.cbrvRefcnt = 0)
              /\ r.cbrvRefcnt > 0 => ~Destroyed(r)
              /\ r.tokenReleases = (IF engine[h].finalSent THEN 1 ELSE 0)
              /\ r.phase = "issued" =>
                    (r.cbrvRefcnt = 1 <=> ~engine[h].finalSent)
              /\ \A k \in DOMAIN r.calls :
                    r.calls[k].avRefcnt >= 1 /\ r.calls[k].cbrvRefcnt = 1

(* C10 witness: the caller dropped its handle before the final event, the
   callback still ran with the cookie as only holder, and the request was
   destroyed when the cookie was released. *)
C10_Witness ==
    \E h \in DOMAIN reqs :
        /\ engine[h].finalSent
        /\ reqs[h].calls # <<>>
        /\ LastCall(reqs[h]).avRefcnt = 1
        /\ LastCall(reqs[h]).cbrvRefcnt = 1
        /\ Destroyed(reqs[h])

(* The rows the request has taken in so far: those handed to the callback,
   in order of delivery, then those still buffered. *)
AllRows(h) == Concat(reqs[h].calls) \o reqs[h].rawrows

(* sv is what a field with source pointer s and length n must decode to:
   undef when the pointer is NULL or the length zero, otherwise a string of
   exactly the n source bytes. *)
FieldDecoded(sv, s, n) ==
    /\ sv.set
    /\ IF s.null \/ n = 0
       THEN ~sv.defined
       ELSE /\ sv.defined
            /\ Len(sv.pv) = n
            /\ \A k \in 1..n : sv.pv[k] = s.bytes[k]

(* C11: key, value, geometry and document id of every row, and the metadata
   of the final event, are absent when the source pointer is NULL or the
   length is zero and otherwise hold exactly the source bytes; every row
   event, whatever fields it lacks, has added one row. *)
C11_FieldsDecoded ==
    \A h \in DOMAIN reqs :
        /\ Len(AllRows(h)) = engine[h].rows
        /\ \A i \in 1..Len(AllRows(h)) :
             LET row == AllRows(h)[i]
                 ev  == RowEventFor(h, i)
             IN  /\ FieldDecoded(row.key, ev.key, ev.nkey)
                 /\ FieldDecoded(row.value, ev.value, ev.nvalue)
                 /\ FieldDecoded(row.geometry, ev.geometry, ev.ngeometry)
                 /\ FieldDecoded(row.id, ev.docid, ev.ndocid)
        /\ engine[h].finalSent =>
             FieldDecoded(reqs[h].meta, engine[h].finalEv.value,
                          engine[h].finalEv.nvalue)

(* C11 witness: rows with a key from a NULL pointer, from a pointer of
   length zero and from real bytes, a value cut to its length, a missing
   document id, all taken in, and metadata of length zero decoded as
   absent. *)
C11_Witness ==
    \E h \in DOMAIN reqs :
        /\ engine[h].rows >= 7
        /\ Len(AllRows(h)) = engine[h].rows
        /\ RowEventOf(4).key.null /\ ~AllRows(h)[4].key.defined
        /\ ~RowEventOf(1).key.null /\ ~AllRows(h)[1].key.defined
        /\ AllRows(h)[2].key.defined
        /\ AllRows(h)[5].value.pv = <<5>>
        /\ ~AllRows(h)[7].id.defined
        /\ engine[h].finalSent
        /\ ~engine[h].finalEv.value.null
        /\ ~reqs[h].meta.defined

(* The document sub-response of a row event exists and failed. *)
DocFailed(ev) == ~ev.docresp.null /\ ev.docresp.rc # "LCB_SUCCESS"

(* C12: a row has "__doc__" exactly when its event carries a document
   sub-response with status success, and then it holds the sub-response's
   bytes; a row whose sub-response failed is still taken in with the key
   and value its event carried, the request is not marked done by it, and
   the rows and the final event after it are handled as usual. *)
C12_DocOnlyOnSuccess ==
    \A h \in DOMAIN reqs :
        /\ Len(AllRows(h)) = engine[h].rows
        /\ reqs[h].isDone <=> engine[h].finalSent
        /\ engine[h].finalSent => IsNone(LastCall(reqs[h]))
        /\ \A i \in 1..Len(AllRows(h)) :
             LET row == AllRows(h)[i]
                 ev  == RowEventFor(h, i)
             IN  /\ row.doc.set <=>
                       (~ev.docresp.null /\ ev.docresp.rc = "LCB_SUCCESS")
                 /\ row.doc.set =>
                       /\ row.doc.defined
                       /\ row.doc.pv = SubSeq(ev.docresp.value.bytes, 1,
                                              ev.docresp.nvalue)
                 /\ DocFailed(ev) =>
                       /\ row.key.defined <=> (~ev.key.null /\ ev.nkey # 0)
                       /\ row.key.defined => row.key.pv = ev.key.bytes
                       /\ row.value.defined <=>
                             (~ev.value.null /\ ev.nvalue # 0)
                       /\ row.value.defined =>
                             row.value.pv = SubSeq(ev.value.bytes, 1,
                                                   ev.nvalue)

(* C12 witness: a finished query whose second row had a failed document
   fetch and kept key and value, whose first and fourth row had a fetched
   document, and whose rows after the failure were all delivered. *)
C12_Witness ==
    \E h \in DOMAIN reqs :
        /\ engine[h].finalSent
        /\ reqs[h].isDone
        /\ engine[h].rows >= 22
        /\ Len(Concat(reqs[h].calls)) = engine[h].rows
        /\ DocFailed(RowEventOf(2))
        /\ ~AllRows(h)[2].doc.set
        /\ AllRows(h)[2].key.defined /\ AllRows(h)[2].value.defined
        /\ AllRows(h)[1].doc.set /\ AllRows(h)[4].doc.set
        /\ ~AllRows(h)[3].doc.set

(* None of the terminal slots RC, META, HTCODE has been stored in x (a
   request or a snapshot of one). *)
TerminalUnset(x) == ~x.rc.set /\ ~x.meta.set /\ ~x.htcode.set

(* C13: while isDone is false none of resultCode, metaValue, httpStatus is
   set; and every call of the callback that carries a batch, the last flush
   of the final event included, sees isDone false and no terminal field. *)
C13_TerminalUnsetBeforeDone ==
    \A h \in DOMAIN reqs :
        /\ ~reqs[h].isDone => TerminalUnset(reqs[h])
        /\ \A k \in DOMAIN reqs[h].calls :
             LET c == reqs[h].calls[k]
             IN  /\ ~c.isDone => TerminalUnset(c)
                 /\ IsBatch(c) => ~c.isDone /\ TerminalUnset(c)

(* C13 witness: the last flush of a final event carried rows and saw
   nothing terminal, and the request now has all three terminal fields. *)
C13_Witness ==
    \E h \in DOMAIN reqs :
        /\ reqs[h].isDone
        /\ reqs[h].rc.set /\ reqs[h].meta.set /\ reqs[h].htcode.set
        /\ Len(reqs[h].calls) >= 2
        /\ LET c == reqs[h].calls[Len(reqs[h].calls) - 1]
           IN  /\ IsBatch(c) /\ c.final /\ Len(c.rows) > 0
               /\ ~c.isDone /\ TerminalUnset(c)

(* One step of the Streaming -> Completed machine of request h. *)
DoneStep(h) ==
    /\ reqs[h].isDone => reqs'[h].isDone
    /\ (~reqs[h].isDone /\ reqs'[h].isDone) =>
          (~engine[h].finalSent /\ engine'[h].finalSent)
    /\ (engine'[h].rows # engine[h].rows /\ ~engine'[h].finalSent) =>
          ~reqs'[h].isDone
    /\ reqs[h].rc.set => reqs'[h].rc = reqs[h].rc
    /\ reqs[h].meta.set => reqs'[h].meta = reqs[h].meta
    /\ reqs[h].htcode.set => reqs'[h].htcode = reqs[h].htcode
    /\ reqs[h].isDone =>
          (reqs'[h].rc = reqs[h].rc /\ reqs'[h].meta = reqs[h].meta
             /\ reqs'[h].htcode = reqs[h].htcode)

(* C14: isDone is false from creation until a final event is handled, no
   row event or flush on a row event sets it, only the handling of a final
   event does, it never goes back to false, and resultCode, metaValue and
   httpStatus are never written again once set or once the request is
   done. *)
C14_DoneMonotonic ==
    /\ [](\A h \in DOMAIN reqs :
             /\ ~engine[h].finalSent => ~reqs[h].isDone
             /\ \A k \in DOMAIN reqs[h].calls :
                   ~reqs[h].calls[k].final => ~reqs[h].calls[k].isDone)
    /\ [][\A h \in DOMAIN reqs : DoneStep(h)]_vars

(* C14 witness: a request that is done after flushes on row events, and
   has lived through a further step (the caller dropping it) since. *)
C14_Witness ==
    \E h \in DOMAIN reqs :
        /\ reqs[h].isDone
        /\ Len(reqs[h].calls) >= 3
        /\ ~reqs[h].calls[1].final /\ ~reqs[h].calls[1].isDone
        /\ reqs[h].rc.set /\ reqs[h].meta.set
        /\ Destroyed(reqs[h])

(* Whether the k-th call of h's callback died (FALSE if there is none). *)
FaultAt(h, k) ==
    IF k \in DOMAIN reqs[h].calls THEN reqs[h].calls[k].fault ELSE FALSE

(* Request h as it would be had its query run alone: a fresh request fed
   the first n rows of h, the callback dying where it died for h. *)
RECURSIVE SoloRows(_, _)
SoloRows(h, n) ==
    IF n = 0
    THEN PLCB__viewhandle_new(NoReq, "LCB_SUCCESS")
    ELSE LET r == SoloRows(h, n - 1)
         IN  viewrow_callback(r, RowEventFor(h, n),
                              FaultAt(h, Len(r.calls) + 1), FALSE)

Solo(h) ==
    LET r == SoloRows(h, engine[h].rows)
    IN  IF engine[h].finalSent
        THEN viewrow_callback(r, engine[h].finalEv,
                              FaultAt(h, Len(r.calls) + 1),
                              FaultAt(h, Len(r.calls) + 2))
        ELSE r

(* What the callback was called with, call by call. *)
Delivered(r) ==
    [k \in DOMAIN r.calls |-> <<r.calls[k].rowsrv, r.calls[k].rows>>]

(* A step in which libcouchbase dispatched an event of request a. *)
DispatchOf(a) == engine[a].submitted /\ engine'[a] # engine[a]

(* C15: with two queries in flight and their events interleaved in any
   order, a dispatch for one request leaves the other request (buffers,
   fields, counts, callback log) and its engine state untouched and only
   adds to its own log; and in every state each submitted request's
   deliveries, buffer and fields are those of the same query run alone. *)
C15_OnlyOwnHandle ==
    /\ [][\A a \in DOMAIN reqs :
            DispatchOf(a) =>
               /\ \A b \in DOMAIN reqs \ {a} :
                     reqs'[b] = reqs[b] /\ engine'[b] = engine[b]
               /\ Len(reqs'[a].calls) >= Len(reqs[a].calls)
               /\ SubSeq(reqs'[a].calls, 1, Len(reqs[a].calls))
                     = reqs[a].calls]_vars
    /\ [](\A h \in DOMAIN reqs :
             engine[h].submitted =>
                LET solo == Solo(h)
                IN  /\ Delivered(reqs[h]) = Delivered(solo)
                    /\ reqs[h].rawrows = solo.rawrows
                    /\ reqs[h].isDone = solo.isDone
                    /\ reqs[h].rc = solo.rc
                    /\ reqs[h].meta = solo.meta
                    /\ reqs[h].htcode = solo.htcode
                    /\ reqs[h].warns = solo.warns)

(* C15 witness: both queries were in flight together; one has completed
   with a full batch and a last flush while the other, issued and not
   finished, has had a full batch flushed and holds a row in its buffer. *)
C15_Witness ==
    \E a, b \in DOMAIN reqs :
        /\ a # b
        /\ engine[a].finalSent
        /\ Len(NonEmptyBatches(reqs[a])) = 2
        /\ engine[b].submitted /\ ~engine[b].finalSent
        /\ Len(NonEmptyBatches(reqs[b])) = 1
        /\ Len(reqs[b].rawrows) = 1
        /\ reqs[a].calls[1].rows # reqs[b].calls[1].rows

(* C16: every submitted query whose final event the loop eventually
   dispatches ends with isDone true, the completion notification made as
   the last call, and the cookie released, however many rows came and
   wherever the callback died. *)
C16_EventuallyCompleted ==
    \A h \in HandleIds :
        engine[h].submitted ~>
            (/\ reqs[h].isDone
             /\ reqs[h].calls # <<>>
             /\ IsNone(LastCall(reqs[h]))
             /\ reqs[h].cbrvRefcnt = 0
             /\ reqs[h].tokenReleases = 1)

(* C16 witness: a query completed although the callback died in every one
   of its calls, two flushes on row events among them. *)
C16_Witness ==
    \E h \in DOMAIN reqs :
        /\ reqs[h].isDone
        /\ reqs[h].cbrvRefcnt = 0
        /\ engine[h].rows >= 42
        /\ Len(reqs[h].calls) >= 4
        /\ \A k \in DOMAIN reqs[h].calls : reqs[h].calls[k].fault
        /\ IsNone(LastCall(reqs[h]))

(* The requests that exist: allocated and not yet freed. *)
LiveRequests == {h \in DOMAIN reqs : reqs[h].phase # "unissued"
                                      /\ ~Destroyed(reqs[h])}

(* C17 as stated: the reference of a request to its context is not counted,
   so issuing a query, holding the handle or having the cookie outstanding
   leaves the count of parent->selfobj where it was. *)
C17_ContextCountUnchanged ==
    selfobjRefcnt = 1

(* C17 as amended: every request holds exactly one counted reference to its
   context from its creation until it is freed, so the count of
   parent->selfobj is its own one plus the number of requests that exist;
   a rejected submission and a request released by both holders leave it
   where it was. *)
C17_ContextRefPerLiveRequest ==
    /\ selfobjRefcnt = 1 + Cardinality(LiveRequests)
    /\ \A h \in DOMAIN reqs :
          /\ reqs[h].parent <=> h \in LiveRequests
          /\ (reqs[h].cbrvRefcnt > 0 \/ reqs[h].blessedRefcnt > 0)
                => reqs[h].parent

(* C17 witness: one request completed, dropped by the caller and freed, so
   that its reference is given back, while the other, dropped by the caller
   and kept only by its cookie, still holds one. *)
C17_Witness ==
    \E a, b \in DOMAIN reqs :
        /\ a # b
        /\ engine[a].finalSent /\ Destroyed(reqs[a])
        /\ reqs[b].phase = "issued"
        /\ reqs[b].blessedRefcnt = 0 /\ reqs[b].cbrvRefcnt = 1
        /\ selfobjRefcnt = 2

(* C18: between two calls of viewrow_callback the buffer holds at most 20
   rows; after a step in which the callback was called with a batch, died
   or not, the buffer is empty, and the completion notification finds it
   empty; and the buffer of a completed request is empty. *)
C18_BufferBounded ==
    /\ [](\A h \in DOMAIN reqs :
             /\ Len(reqs[h].rawrows) <= FlushTopIndex
             /\ (reqs[h].isDone \/ engine[h].finalSent) =>
                   reqs[h].rawrows = <<>>
             /\ \A k \in DOMAIN reqs[h].calls :
                   IsNone(reqs[h].calls[k]) => reqs[h].calls[k].buffered = 0)
    /\ [][\A h \in DOMAIN reqs :
            Len(reqs'[h].calls) > Len(reqs[h].calls) =>
               reqs'[h].rawrows = <<>>]_vars

(* C18 witness: a flush on a row event in which the callback died, after
   which the buffer has filled again to exactly 20 rows. *)
C18_Witness ==
    \E h \in DOMAIN reqs :
        /\ Len(reqs[h].calls) = 1
        /\ reqs[h].calls[1].fault
        /\ IsBatch(reqs[h].calls[1])
        /\ Len(reqs[h].rawrows) = FlushTopIndex
        /\ ~engine[h].finalSent

====
